---- MODULE Spec2Model ----
(***************************************************************************)
(* Model of the elaboration context of the sml-compiler core               *)
(* (crates/sml-core/src/elaborate): the namespace vector with parent       *)
(* links, the global type/value tables, the type-variable binder stack,    *)
(* the fresh-name counters, and the elaborate_decl / elaborate_expr        *)
(* functions that drive them.                                              *)
(*                                                                         *)
(* Indices (current, TypeId, ExprId, parent) are 0-based as in the source; *)
(* the TLA+ sequences holding the vectors are 1-based, so entry i of a     *)
(* vector v is v[i + 1].                                                   *)
(***************************************************************************)
EXTENDS Integers, Sequences, FiniteSets, TLC

VARIABLES
    ctx,              \* the Context (one record, a field per struct field)
    calls,            \* open with_scope / with_tyvars activations, innermost last
    last,             \* the operation performed by the last step and what it returned
    overflow_checks,  \* build profile: TRUE = arithmetic overflow panics, FALSE = it wraps
    elab_calls,       \* number of elaborate_decl / elaborate_expr calls made so far
    arena,            \* the ExprArena of the compilation (its `fresh` counter)
    gensyms           \* the Gensym symbols handed out so far, oldest first

vars == <<ctx, calls, last, overflow_checks, elab_calls, arena, gensyms>>

----------------------------------------------------------------------------
(* Bounds of the model *)

MaxFrames == 3        \* namespaces.len() never exceeds this
MaxCalls == 3         \* nesting depth of open with_scope / with_tyvars calls
MaxValues == 5        \* values.len() never exceeds this
MaxTypes == 10        \* types.len() never exceeds this
MaxTyvarId == 5       \* tyvar_id never exceeds this
MaxVarId == 2         \* var_id never exceeds this
MaxTyvarStack == 2    \* tyvars.len() never exceeds this
MaxInfix == 2         \* infix entries over all namespaces never exceed this
MaxElabCalls == 2     \* elaborate_decl / elaborate_expr calls in one run
MaxArenaFresh == 4    \* ExprArena.fresh never exceeds this

----------------------------------------------------------------------------
(* Option<T> *)

None == [tag |-> "None"]
Some(v) == [tag |-> "Some", v |-> v]
is_some(o) == o.tag = "Some"

(* HashMap<Symbol, V> *)

EmptyMap == [s \in {} |-> 0]
insert(m, k, v) == [s \in (DOMAIN m) \cup {k} |-> IF s = k THEN v ELSE m[s]]
get(m, k) == IF k \in DOMAIN m THEN Some(m[k]) ELSE None

(* Vec<T>: 0-based indexing *)

At(v, i) == v[i + 1]

----------------------------------------------------------------------------
(* Interned symbols of the prelude *)

S_NIL == "nil"
S_TRUE == "true"
S_FALSE == "false"
S_CONS == "::"

(* Types, schemes, constructors *)

Var(id) == [k |-> "Var", id |-> id]
Con(tc, args) == [k |-> "Con", tc |-> tc, args |-> args]
Record(rows) == [k |-> "Record", rows |-> rows]

Tycon_new(name, arity) == [name |-> name, arity |-> arity]

T_ARROW == Tycon_new("->", 2)
T_INT == Tycon_new("int", 0)
T_CHAR == Tycon_new("char", 0)
T_STRING == Tycon_new("string", 0)
T_BOOL == Tycon_new("bool", 0)
T_UNIT == Tycon_new("unit", 0)
T_EXN == Tycon_new("exn", 0)
T_REF == Tycon_new("ref", 1)
T_LIST == Tycon_new("list", 1)
T_BUILTINS == <<T_ARROW, T_UNIT, T_CHAR, T_INT, T_STRING, T_REF, T_LIST, T_BOOL, T_EXN>>

Type_bool == Con(T_BOOL, <<>>)
Type_unit == Con(T_UNIT, <<>>)
Type_exn == Con(T_EXN, <<>>)
Type_arrow(dom, rng) == Con(T_ARROW, <<dom, rng>>)

Mono(ty) == [s |-> "Mono", ty |-> ty]
Poly(ids, ty) == [s |-> "Poly", ids |-> ids, ty |-> ty]

Constructor(name, type_id, tag) == [name |-> name, type_id |-> type_id, tag |-> tag]
C_NIL == Constructor(S_NIL, 6, 0)
C_TRUE == Constructor(S_TRUE, 7, 0)
C_FALSE == Constructor(S_FALSE, 7, 1)

IdStatus_Var == [st |-> "Var"]
IdStatus_Con(c) == [st |-> "Con", con |-> c]
IdStatus_Exn(c) == [st |-> "Exn", con |-> c]

TypeStructure_Tycon(tc) == [ts |-> "Tycon", tc |-> tc]
TypeStructure_Scheme(s) == [ts |-> "Scheme", scheme |-> s]

Fixity_Infix(lbp, rbp) == [fix |-> "Infix", lbp |-> lbp, rbp |-> rbp]
Fixity_Nonfix == [fix |-> "Nonfix"]

(* TypeVar::new(id, rank): an unbound inference-variable cell *)
TypeVar_new(id, rank) == [id |-> id, rank |-> rank, binding |-> None]

----------------------------------------------------------------------------
(* Results of fallible operations: Ok(val), Err(diagnostic), or a panic    *)
(* (unimplemented!, index out of bounds, checked arithmetic overflow).     *)

(* What the last step did: the operation called, its argument, whether it *)
(* returned Ok or Err or panicked, and what it returned.                  *)
Step(op, arg, res, ret) == [op |-> op, res |-> res, arg |-> arg, ret |-> ret]

Ok(c, v) == [ctx |-> c, res |-> "Ok", val |-> v]
Err(c, d) == [ctx |-> c, res |-> "Err", val |-> d]
Panic(c) == [ctx |-> c, res |-> "Panic", val |-> "panic"]
Unit == "()"

(* r? followed by the rest of the function: a result that is not Ok is     *)
(* returned as it is, an Ok result is handed to the continuation k         *)
Try(r, k(_)) == IF r.res # "Ok" THEN r ELSE k(r)

(* let v = ...; followed by the rest of the function *)
With(v, k(_)) == k(v)

Diagnostic_error(msg, what) == [level |-> "Error", msg |-> msg, what |-> what]
Diagnostic_bug(msg, what) == [level |-> "Bug", msg |-> msg, what |-> what]

----------------------------------------------------------------------------
(* Namespace and Context *)

Namespace_default == [parent |-> None, types |-> EmptyMap, values |-> EmptyMap, infix |-> EmptyMap]

(* a frame made without its parent link *)
Namespace_with_parent_unlinked(id) ==
    [parent |-> None, types |-> EmptyMap, values |-> EmptyMap, infix |-> EmptyMap]

Namespace_with_parent(id) == [parent |-> Some(id), types |-> EmptyMap, values |-> EmptyMap, infix |-> EmptyMap]

Context_default ==
    [tyvars |-> <<>>, namespaces |-> <<>>, current |-> 0,
     types |-> <<>>, values |-> <<>>,
     tyvar_id |-> 0, tyvar_rank |-> 0, var_id |-> 0,
     decls |-> <<>>,
     cells |-> [i \in {} |-> 0]]

(* namespaces[i] *)
Frame(c, i) == At(c.namespaces, i)

(* an insert that always goes to the root namespace *)
FrameInsert_root(c, field, sym, v) ==
    [c EXCEPT !.namespaces[1][field] = insert(@, sym, v)]

(* self.namespaces[self.current].<field>.insert(sym, v) *)
FrameInsert(c, field, sym, v) ==
    [c EXCEPT !.namespaces[c.current + 1][field] = insert(@, sym, v)]

(* define_value that takes the id after the push *)
define_value_id_after_push(c, sym, scheme, status) ==
    LET c1 == [c EXCEPT !.values = Append(@, <<scheme, status>>)]
        id == Len(c1.values)
    IN  Ok(FrameInsert(c1, "values", sym, id), id)

define_type(c, sym, tystr) ==
    LET id == Len(c.types)
        c1 == [c EXCEPT !.types = Append(@, tystr)]
    IN  Ok(FrameInsert(c1, "types", sym, id), id)

define_value(c, sym, scheme, status) ==
    LET id == Len(c.values)
        c1 == [c EXCEPT !.values = Append(@, <<scheme, status>>)]
    IN  Ok(FrameInsert(c1, "values", sym, id), id)

(* Index<TypeId> / Index<ExprId> for Context *)
IndexType(c, id) == At(c.types, id)
IndexValue(c, id) == At(c.values, id)

(* a lookup that treats the namespace vector as a stack: the frame below, *)
(* not the parent                                                         *)
RECURSIVE lookup_walk_below(_, _, _, _)
lookup_walk_below(c, field, ptr, sym) ==
    With(get(Frame(c, ptr)[field], sym), LAMBDA hit :
        IF is_some(hit) THEN hit
        ELSE IF ptr > 0 THEN lookup_walk_below(c, field, ptr - 1, sym)
        ELSE None)

(* The loop shared by the four lookup_* functions: starting at frame ptr,  *)
(* return the entry of the first frame whose map `field` holds sym,        *)
(* following parent links; None when a frame without parent is passed.     *)
RECURSIVE lookup_walk(_, _, _, _)
lookup_walk(c, field, ptr, sym) ==
    With(Frame(c, ptr), LAMBDA ns :
    With(get(ns[field], sym), LAMBDA hit :
        IF is_some(hit) THEN hit
        ELSE IF is_some(ns.parent) THEN lookup_walk(c, field, ns.parent.v, sym)
        ELSE None))

lookup_infix(c, sym) == lookup_walk(c, "infix", c.current, sym)

lookup_typeid(c, sym) == lookup_walk(c, "types", c.current, sym)

lookup_type(c, sym) ==
    With(lookup_walk(c, "types", c.current, sym), LAMBDA idx :
        IF is_some(idx) THEN Some(IndexType(c, idx.v)) ELSE None)

lookup_value(c, sym) ==
    With(lookup_walk(c, "values", c.current, sym), LAMBDA idx :
        IF is_some(idx) THEN Some(IndexValue(c, idx.v)) ELSE None)

(* Symbol::Gensym(n) *)
Symbol_Gensym(n) == [gensym |-> n]

(* ExprArena: new, allocate_id, fresh_var. Results are <<arena, value>>. *)
ExprArena_new == [fresh |-> 0]

allocate_id(a) ==
    With(a.fresh, LAMBDA x : <<[a EXCEPT !.fresh = x + 1], Symbol_Gensym(x)>>)

ExprArena_fresh_var(a) ==
    With(allocate_id(a), LAMBDA r : <<r[1], [ek |-> "Var", sym |-> r[2]]>>)

(* Stack<TypeVar>: push / popn / reverse search *)
Stack_push(c, sym, tv) == [c EXCEPT !.tyvars = Append(@, <<sym, tv>>)]
Stack_popn(c, n) == [c EXCEPT !.tyvars = SubSeq(@, 1, Len(@) - n)]

(* fresh_tyvar that creates the variable one rank deeper *)
fresh_tyvar_deeper_rank(c) ==
    LET ex == c.tyvar_id
        c1 == [c EXCEPT !.tyvar_id = ex + 1,
                        !.cells = [i \in (DOMAIN @) \cup {ex} |->
                                     IF i = ex THEN TypeVar_new(ex, c.tyvar_rank + 1) ELSE @[i]]]
    IN  Ok(c1, ex)

fresh_tyvar(c) ==
    LET ex == c.tyvar_id
        c1 == [c EXCEPT !.tyvar_id = ex + 1,
                        !.cells = [i \in (DOMAIN @) \cup {ex} |->
                                     IF i = ex THEN TypeVar_new(ex, c.tyvar_rank) ELSE @[i]]]
    IN  Ok(c1, ex)

fresh_var(c) ==
    LET ex == c.var_id
    IN  Ok([c EXCEPT !.var_id = ex + 1], Symbol_Gensym(ex))

lookup_tyvar(c, s, allow_unbound) ==
    LET hits == {i \in 1..Len(c.tyvars) : c.tyvars[i][1] = s}
    IN  IF hits # {}
          THEN Ok(c, Some(c.tyvars[CHOOSE i \in hits : \A j \in hits : j <= i][2]))
          ELSE IF allow_unbound
                 THEN Try(fresh_tyvar(c), LAMBDA r : Ok(r.ctx, Some(r.val)))
                 ELSE Ok(c, None)

(* u8 addition bp + 1: exact below 255; at 255 it panics when the build    *)
(* checks overflow and wraps to 0 when it does not.                        *)
U8Max == 255
u8_add_overflows(a, b) == a + b > U8Max
u8_add(a, b) == (a + b) % (U8Max + 1)

elab_decl_fixity(c, fixity, bp, sym) ==
    IF fixity # "Nonfix" /\ u8_add_overflows(bp, 1) /\ overflow_checks
      THEN Panic(c)
      ELSE LET fix == CASE fixity = "Infix" -> Fixity_Infix(bp, u8_add(bp, 1))
                        [] fixity = "Infixr" -> Fixity_Infix(u8_add(bp, 1), bp)
                        [] fixity = "Nonfix" -> Fixity_Nonfix
           IN  Ok(FrameInsert(c, "infix", sym, fix), Unit)

(* with_scope that leaves current where the body left it *)
with_scope_exit_keeps_current(c, prev) == c

(* with_scope, split at the call of its body f: the part before           *)
(* (prev, next, push, current = next) and the part after (current = prev). *)
with_scope_enter(c) ==
    LET prev == c.current
        next == Len(c.namespaces)
    IN  [c EXCEPT !.namespaces = Append(@, Namespace_with_parent(prev)),
                  !.current = next]

with_scope_exit(c, prev) == [c EXCEPT !.current = prev]

(* with_scope(f): a panic in f unwinds through with_scope, so nothing      *)
(* after the call of f runs; Ok and Err both return through it.            *)
with_scope(c, f(_)) ==
    With(f(with_scope_enter(c)), LAMBDA r :
        IF r.res = "Panic" THEN r
        ELSE [r EXCEPT !.ctx = with_scope_exit(r.ctx, c.current)])

(* with_tyvars that pops one binder too few *)
with_tyvars_exit_pops_less(c, n) ==
    LET to_pop == Len(c.tyvars) - n
    IN  Stack_popn(c, IF to_pop > 0 THEN to_pop - 1 ELSE 0)

(* with_tyvars, split the same way: n = tyvars.len() before f, and        *)
(* popn(tyvars.len() - n) after it.                                        *)
with_tyvars_exit(c, n) ==
    LET to_pop == Len(c.tyvars) - n
    IN  Stack_popn(c, to_pop)

with_tyvars(c, f(_)) ==
    With(f(c), LAMBDA r :
        IF r.res = "Panic" \/ Len(r.ctx.tyvars) < Len(c.tyvars) THEN Panic(r.ctx)
        ELSE [r EXCEPT !.ctx = with_tyvars_exit(r.ctx, Len(c.tyvars))])

(* Context::new *)
RECURSIVE define_builtins(_, _)
define_builtins(c, i) ==
    IF i > Len(T_BUILTINS) THEN c
    ELSE define_builtins(define_type(c, T_BUILTINS[i].name, TypeStructure_Tycon(T_BUILTINS[i])).ctx, i + 1)

(* Context::new without the final tyvar_id.set(1) *)
Context_new_counter_unset ==
    LET c0 == [Context_default EXCEPT !.namespaces = <<Namespace_default>>]
        c1 == define_builtins(c0, 1)
        c2 == define_value(c1, S_NIL, Poly(<<0>>, Con(T_LIST, <<Var(0)>>)), IdStatus_Con(C_NIL)).ctx
        c3 == define_value(c2, S_TRUE, Mono(Type_bool), IdStatus_Con(C_TRUE)).ctx
        c4 == define_value(c3, S_FALSE, Mono(Type_bool), IdStatus_Con(C_FALSE)).ctx
        c5 == elab_decl_fixity(c4, "Infixr", 4, S_CONS).ctx
    IN  [c5 EXCEPT !.cells = [i \in {0} |-> TypeVar_new(0, 0)]]

Context_new ==
    LET c0 == [Context_default EXCEPT !.namespaces = <<Namespace_default>>]
        c1 == define_builtins(c0, 1)
        c2 == define_value(c1, S_NIL, Poly(<<0>>, Con(T_LIST, <<Var(0)>>)), IdStatus_Con(C_NIL)).ctx
        c3 == define_value(c2, S_TRUE, Mono(Type_bool), IdStatus_Con(C_TRUE)).ctx
        c4 == define_value(c3, S_FALSE, Mono(Type_bool), IdStatus_Con(C_FALSE)).ctx
        c5 == elab_decl_fixity(c4, "Infixr", 4, S_CONS).ctx
    IN  [c5 EXCEPT !.tyvar_id = 1,
                   !.cells = [i \in {0} |-> TypeVar_new(0, 0)]]

----------------------------------------------------------------------------
(* Type inference: binding chains, unification, instantiation and          *)
(* generalization. Inference variables are cells (c.cells) mutated in      *)
(* place: binding goes None -> Some(t) once.                               *)

Min(a, b) == IF a <= b THEN a ELSE b

(* Follow the binding chain of a type to its current end. *)
RECURSIVE walk(_, _)
walk(cells, ty) ==
    IF ty.k = "Var" /\ ty.id \in DOMAIN cells /\ is_some(cells[ty.id].binding)
      THEN walk(cells, cells[ty.id].binding.v)
      ELSE ty

(* Does variable id occur in ty, transitively through bindings? *)
RECURSIVE occurs(_, _, _)
occurs(cells, id, ty) ==
    With(walk(cells, ty), LAMBDA t :
        CASE t.k = "Var" -> t.id = id
          [] t.k = "Con" -> \E i \in 1..Len(t.args) : occurs(cells, id, t.args[i])
          [] t.k = "Record" -> \E i \in 1..Len(t.rows) : occurs(cells, id, t.rows[i].data))

(* The type with every bound variable replaced by what it is bound to. *)
RECURSIVE resolve(_, _)
resolve(cells, ty) ==
    With(walk(cells, ty), LAMBDA t :
        CASE t.k = "Var" -> t
          [] t.k = "Con" -> Con(t.tc, [i \in 1..Len(t.args) |-> resolve(cells, t.args[i])])
          [] t.k = "Record" ->
               Record([i \in 1..Len(t.rows) |-> [t.rows[i] EXCEPT !.data = resolve(cells, @)]]))

(* Bind free variable v to type other (step 3 of unify). *)
bind_var(c, v, other) ==
    IF occurs(c.cells, v, other)
      THEN Err(c, Diagnostic_error("occurs check", <<Var(v), resolve(c.cells, other)>>))
      ELSE LET r == IF other.k = "Var" /\ other.id \in DOMAIN c.cells
                      THEN Min(c.cells[v].rank, c.cells[other.id].rank)
                      ELSE c.cells[v].rank
           IN  Ok([c EXCEPT !.cells[v].binding = Some(other), !.cells[v].rank = r], Unit)

(* the error of unify: the two types as they stand *)
mismatch(c, a, b) ==
    Err(c, Diagnostic_error("can't unify", <<resolve(c.cells, a), resolve(c.cells, b)>>))

(* the arguments failed to unify: the error names the outer types *)
MismatchOf(r, c, a, b) ==
    IF r.res = "Ok" THEN r ELSE [mismatch(c, a, b) EXCEPT !.ctx = r.ctx]

(* the rows of tb in the label order of ta *)
partner(ta, tb, i) == CHOOSE j \in 1..Len(tb.rows) : tb.rows[j].label = ta.rows[i].label

RECURSIVE unify(_, _, _), unify_pairs(_, _, _)
unify_walked(c, a, b, ta, tb) ==
    CASE ta.k = "Var" /\ tb.k = "Var" /\ ta.id = tb.id -> Ok(c, Unit)
      [] ta.k = "Var" /\ ~(tb.k = "Var" /\ ta.id = tb.id) -> bind_var(c, ta.id, tb)
      [] ta.k # "Var" /\ tb.k = "Var" -> bind_var(c, tb.id, ta)
      [] ta.k = "Con" /\ tb.k = "Con" /\ ta.tc = tb.tc /\ Len(ta.args) = Len(tb.args) ->
           MismatchOf(unify_pairs(c, ta.args, tb.args), c, a, b)
      [] /\ ta.k = "Record" /\ tb.k = "Record" /\ Len(ta.rows) = Len(tb.rows)
         /\ {ta.rows[i].label : i \in 1..Len(ta.rows)} = {tb.rows[i].label : i \in 1..Len(tb.rows)} ->
           MismatchOf(unify_pairs(c, [i \in 1..Len(ta.rows) |-> ta.rows[i].data],
                                     [i \in 1..Len(ta.rows) |-> tb.rows[partner(ta, tb, i)].data]),
                      c, a, b)
      [] OTHER -> mismatch(c, a, b)

unify(c, a, b) == unify_walked(c, a, b, walk(c.cells, a), walk(c.cells, b))

(* Pointwise unification of two equally long type lists, left to right. *)
unify_pairs(c, as, bs) ==
    IF as = <<>> THEN Ok(c, Unit)
    ELSE Try(unify(c, Head(as), Head(bs)), LAMBDA r : unify_pairs(r.ctx, Tail(as), Tail(bs)))

(* unify_list / unify_list_ref: unify (t1, ti) for every i > 1. *)
RECURSIVE unify_list_from(_, _, _)
unify_list_from(c, tys, i) ==
    IF i > Len(tys) THEN Ok(c, Unit)
    ELSE Try(unify(c, tys[1], tys[i]), LAMBDA r : unify_list_from(r.ctx, tys, i + 1))

unify_list(c, tys) == unify_list_from(c, tys, 2)

(* Free variables of ty whose rank exceeds rank, in order of first occurrence. *)
RECURSIVE ftv(_, _, _), ftv_seq(_, _, _)
ftv(cells, rank, ty) ==
    With(walk(cells, ty), LAMBDA t :
        CASE t.k = "Var" ->
               IF t.id \in DOMAIN cells /\ cells[t.id].rank > rank THEN <<t.id>> ELSE <<>>
          [] t.k = "Con" -> ftv_seq(cells, rank, t.args)
          [] t.k = "Record" -> ftv_seq(cells, rank, [i \in 1..Len(t.rows) |-> t.rows[i].data]))

ftv_seq(cells, rank, tys) ==
    IF tys = <<>> THEN <<>>
    ELSE With(ftv(cells, rank, Head(tys)), LAMBDA h :
              h \o SelectSeq(ftv_seq(cells, rank, Tail(tys)),
                             LAMBDA x : \A i \in 1..Len(h) : h[i] # x))

generalize(c, ty) ==
    With(ftv(c.cells, c.tyvar_rank, ty), LAMBDA ids :
        IF ids = <<>> THEN Mono(ty) ELSE Poly(ids, ty))

(* Substitute the type sub[id] for every quantified id in ty. *)
RECURSIVE subst(_, _)
subst(sub, ty) ==
    CASE ty.k = "Var" -> IF ty.id \in DOMAIN sub THEN sub[ty.id] ELSE ty
      [] ty.k = "Con" -> Con(ty.tc, [i \in 1..Len(ty.args) |-> subst(sub, ty.args[i])])
      [] ty.k = "Record" ->
           Record([i \in 1..Len(ty.rows) |-> [ty.rows[i] EXCEPT !.data = subst(sub, @)]])

RECURSIVE fresh_tyvars(_, _)
fresh_tyvars(c, n) ==
    IF n = 0 THEN Ok(c, <<>>)
    ELSE Try(fresh_tyvar(c), LAMBDA r :
         Try(fresh_tyvars(r.ctx, n - 1), LAMBDA rest :
             Ok(rest.ctx, <<r.val>> \o rest.val)))

instantiate(c, scheme) ==
    IF scheme.s = "Mono" THEN Ok(c, scheme.ty)
    ELSE Try(fresh_tyvars(c, Len(scheme.ids)), LAMBDA r :
             Ok(r.ctx,
                subst([id \in {scheme.ids[i] : i \in 1..Len(scheme.ids)} |->
                         Var(r.val[CHOOSE i \in 1..Len(scheme.ids) : scheme.ids[i] = id])],
                      resolve(c.cells, scheme.ty))))

const_ty(c) ==
    CASE c = "Char" -> Con(T_CHAR, <<>>)
      [] c = "Int" -> Con(T_INT, <<>>)
      [] c = "String" -> Con(T_STRING, <<>>)
      [] c = "Unit" -> Con(T_UNIT, <<>>)

(* Scheme::apply / Scheme::arity, TypeStructure::apply / TypeStructure::arity *)
Scheme_arity(scheme) == IF scheme.s = "Mono" THEN 0 ELSE Len(scheme.ids)

Scheme_apply(scheme, args) ==
    IF scheme.s = "Mono" THEN scheme.ty
    ELSE subst([id \in {scheme.ids[i] : i \in 1..Len(scheme.ids)} |->
                  args[CHOOSE i \in 1..Len(scheme.ids) : scheme.ids[i] = id]], scheme.ty)

TypeStructure_arity(tystr) ==
    IF tystr.ts = "Scheme" THEN Scheme_arity(tystr.scheme) ELSE tystr.tc.arity

TypeStructure_apply(tystr, args) ==
    IF tystr.ts = "Scheme" THEN Scheme_apply(tystr.scheme, args) ELSE Con(tystr.tc, args)

----------------------------------------------------------------------------
(* Surface syntax (sml_frontend::ast)                                      *)
(*   types:  [t |-> "Var", sym] | [t |-> "Con", name, args]                *)
(*   pats:   [p |-> "Wild"] | [p |-> "Var", sym] | [p |-> "Const", c]      *)
(*   exprs:  [e |-> <ExprKind>, ...]      decls: [d |-> <DeclKind>, ...]   *)
(* Elaborated IR (sml_core): [kind |-> [ek |-> ..., ...], ty |-> Type]     *)

Expr_new(kind, ty) == [kind |-> kind, ty |-> ty]
Pat_new(kind, ty) == [kind |-> kind, ty |-> ty]

(* elaborate_type: resolve a surface type to a core Type *)
RECURSIVE elaborate_type(_, _, _), elaborate_types(_, _, _)
elaborate_type(c, ty, allow_unbound) ==
    CASE ty.t = "Var" ->
           Try(lookup_tyvar(c, ty.sym, allow_unbound), LAMBDA r :
               IF is_some(r.val) THEN Ok(r.ctx, Var(r.val.v))
               ELSE Err(r.ctx, Diagnostic_error("unbound type variable", ty.sym)))
      [] ty.t = "Con" ->
           Try(elaborate_types(c, ty.args, allow_unbound), LAMBDA as :
           With(lookup_type(as.ctx, ty.name), LAMBDA con :
               IF ~is_some(con)
                 THEN Err(as.ctx, Diagnostic_error("unbound type", ty.name))
               ELSE IF TypeStructure_arity(con.v) # Len(as.val)
                 THEN Err(as.ctx, Diagnostic_error("type constructor arity mismatch", ty.name))
               ELSE Ok(as.ctx, TypeStructure_apply(con.v, as.val))))

elaborate_types(c, tys, allow_unbound) ==
    IF tys = <<>> THEN Ok(c, <<>>)
    ELSE Try(elaborate_type(c, Head(tys), allow_unbound), LAMBDA r :
         Try(elaborate_types(r.ctx, Tail(tys), allow_unbound), LAMBDA rest :
             Ok(rest.ctx, <<r.val>> \o rest.val)))

(* elaborate_pat: returns <<Pat, bindings>>; with bind set, every pattern  *)
(* variable is also defined in the current namespace, monomorphically.     *)
Binding(var, tv) == [var |-> var, tv |-> tv]

is_arrow(cells, ty) == With(walk(cells, ty), LAMBDA t : t.k = "Con" /\ t.tc = T_ARROW)

(* a pattern variable: a fresh inference variable, defined when bind is set *)
elab_pat_var(c, pat, bind) ==
    Try(fresh_tyvar(c), LAMBDA tv :
        Ok(IF bind
             THEN define_value(tv.ctx, pat.sym, Mono(Var(tv.val)), IdStatus_Var).ctx
             ELSE tv.ctx,
           <<Pat_new([pk |-> "Var", sym |-> pat.sym], Var(tv.val)),
             <<Binding(pat.sym, tv.val)>>>>))

(* a nullary constructor pattern of the instantiated type ty, or a         *)
(* variable when the name is a constructor that takes an argument          *)
elab_pat_con(c, pat, bind, con, inst) ==
    IF ~is_arrow(inst.ctx.cells, inst.val)
      THEN Ok(inst.ctx, <<Pat_new([pk |-> "App", con |-> con, arg |-> None], inst.val), <<>>>>)
      ELSE elab_pat_var(c, pat, bind)

elaborate_pat(c, pat, bind) ==
    CASE pat.p = "Wild" ->
           Try(fresh_tyvar(c), LAMBDA r :
               Ok(r.ctx, <<Pat_new([pk |-> "Wild"], Var(r.val)), <<>>>>))
      [] pat.p = "Const" ->
           Ok(c, <<Pat_new([pk |-> "Const", c |-> pat.c], const_ty(pat.c)), <<>>>>)
      [] pat.p = "Var" ->
           With(lookup_value(c, pat.sym), LAMBDA v :
               IF is_some(v) /\ v.v[2].st \in {"Con", "Exn"}
                 THEN Try(instantiate(c, v.v[1]), LAMBDA inst :
                          elab_pat_con(c, pat, bind, v.v[2].con, inst))
                 ELSE elab_pat_var(c, pat, bind))

----------------------------------------------------------------------------
(* Expression and declaration elaboration *)

Rule(pat, expr) == [pat |-> pat, expr |-> expr]

(* Type::de_arrow *)
de_arrow(ty) ==
    IF ty.k = "Con" /\ ty.tc = T_ARROW THEN Some(<<ty.args[1], ty.args[2]>>) ELSE None

(* elab_if with the two rule bodies exchanged *)
elab_if_swapped(c, e1, e2, e3) ==
    LET tru == Rule(Pat_new([pk |-> "App", con |-> C_TRUE, arg |-> None], Type_bool), e3)
        fls == Rule(Pat_new([pk |-> "App", con |-> C_FALSE, arg |-> None], Type_bool), e2)
    IN  Ok(c, Expr_new([ek |-> "Case", scrut |-> e1, rules |-> <<tru, fls>>], Type_bool))

elab_if(c, e1, e2, e3) ==
    LET tru == Rule(Pat_new([pk |-> "App", con |-> C_TRUE, arg |-> None], Type_bool), e2)
        fls == Rule(Pat_new([pk |-> "App", con |-> C_FALSE, arg |-> None], Type_bool), e3)
    IN  Ok(c, Expr_new([ek |-> "Case", scrut |-> e1, rules |-> <<tru, fls>>], Type_bool))

(* expr_precedence: reshape a flat application by precedence climbing.     *)
(* An operand is a maximal run of items that are not infix operators,      *)
(* applied left to right; an operator op between operands a and b gives    *)
(* the application of op to the pair (a, b).                               *)
is_infix(c, item) ==
    /\ item.e = "Var"
    /\ With(lookup_infix(c, item.sym), LAMBDA fix : is_some(fix) /\ fix.v.fix = "Infix")

PrecOk(val, pos) == [res |-> "Ok", val |-> val, pos |-> pos]

RECURSIVE prec_operand(_, _, _, _), prec_climb(_, _, _, _, _)
prec_operand(c, items, pos, acc) ==
    IF pos > Len(items) \/ is_infix(c, items[pos])
      THEN IF is_some(acc) THEN PrecOk(acc.v, pos)
           ELSE IF pos > Len(items) THEN [res |-> "EndsInfix", val |-> Unit, pos |-> pos]
           ELSE [res |-> "InfixInPrefix", val |-> Unit, pos |-> pos]
      ELSE prec_operand(c, items, pos + 1,
                        IF is_some(acc)
                          THEN Some([e |-> "App", e1 |-> acc.v, e2 |-> items[pos]])
                          ELSE Some(items[pos]))

prec_climb(c, items, lhs, pos, min_bp) ==
    IF pos > Len(items) THEN PrecOk(lhs, pos)
    ELSE With(lookup_infix(c, items[pos].sym).v, LAMBDA fix :
           IF fix.lbp < min_bp THEN PrecOk(lhs, pos)
           ELSE Try(prec_operand(c, items, pos + 1, None), LAMBDA rhs0 :
                Try(prec_climb(c, items, rhs0.val, rhs0.pos, fix.rbp), LAMBDA rhs :
                    prec_climb(c, items,
                               [e |-> "App", e1 |-> items[pos],
                                e2 |-> [e |-> "Record",
                                        rows |-> <<[label |-> "1", data |-> lhs],
                                                   [label |-> "2", data |-> rhs.val]>>]],
                               rhs.pos, min_bp))))

expr_precedence(c, items) ==
    Try(prec_operand(c, items, 1, None), LAMBDA lhs : prec_climb(c, items, lhs.val, lhs.pos, 0))

(* for each binder symbol: v = fresh_tyvar(); tyvars.push(s, v) *)
RECURSIVE push_tyvars(_, _)
push_tyvars(c, syms) ==
    IF syms = <<>> THEN c
    ELSE With(fresh_tyvar(c), LAMBDA v :
              push_tyvars(Stack_push(v.ctx, Head(syms), v.val), Tail(syms)))

(* syms.map(|s| lookup_tyvar(s, false).unwrap()): None makes unwrap panic *)
lookup_tyvars_unwrap(c, syms) ==
    With([i \in 1..Len(syms) |-> lookup_tyvar(c, syms[i], FALSE).val], LAMBDA found :
        IF \E i \in 1..Len(syms) : ~is_some(found[i]) THEN Panic(c)
        ELSE Ok(c, [i \in 1..Len(syms) |-> found[i].v]))

RECURSIVE elaborate_expr(_, _), elaborate_decl(_, _), elab_exprs(_, _),
          elab_rule_seq(_, _), elab_rows(_, _), elab_decls(_, _),
          elab_decl_type_from(_, _, _), elab_conbinds(_, _, _, _, _, _),
          elab_datatype_tycons(_, _), elab_datatype_conbinds(_, _),
          elab_decl_exception(_, _), unify_each_unit(_, _, _),
          define_bindings(_, _)

(* exprs.map(|ex| self.elaborate_expr(ex)).collect::<Result<Vec<_>, _>>() *)
elab_exprs(c, exprs) ==
    IF exprs = <<>> THEN Ok(c, <<>>)
    ELSE Try(elaborate_expr(c, Head(exprs)), LAMBDA r :
         Try(elab_exprs(r.ctx, Tail(exprs)), LAMBDA rest :
             Ok(rest.ctx, <<r.val>> \o rest.val)))

elab_rule(c, rule, bind) ==
    Try(elaborate_pat(c, rule.pat, bind), LAMBDA p :
    Try(elaborate_expr(p.ctx, rule.expr), LAMBDA e :
        Ok(e.ctx, Rule(p.val[1], e.val))))

(* rules.map(|r| f.elab_rule(r, true)).collect::<Result<Vec<Rule>, _>>() *)
elab_rule_seq(c, rules) ==
    IF rules = <<>> THEN Ok(c, <<>>)
    ELSE Try(elab_rule(c, Head(rules), TRUE), LAMBDA r :
         Try(elab_rule_seq(r.ctx, Tail(rules)), LAMBDA rest :
             Ok(rest.ctx, <<r.val>> \o rest.val)))

(* the closure handed to with_scope by elab_rules; rtys.remove(0) panics   *)
(* on an empty vector                                                      *)
elab_rules_body(f, rules) ==
    Try(elab_rule_seq(f, rules), LAMBDA rs :
    With([i \in 1..Len(rs.val) |-> Type_arrow(rs.val[i].pat.ty, rs.val[i].expr.ty)], LAMBDA rtys :
    Try(unify_list(rs.ctx, rtys), LAMBDA u :
        IF rtys = <<>> THEN Panic(u.ctx) ELSE Ok(u.ctx, <<rs.val, Head(rtys)>>))))

elab_rules(c, rules) == with_scope(c, LAMBDA f : elab_rules_body(f, rules))

(* elab_row applied to every row of a record, in order *)
elab_rows(c, rows) ==
    IF rows = <<>> THEN Ok(c, <<>>)
    ELSE Try(elaborate_expr(c, Head(rows).data), LAMBDA r :
         Try(elab_rows(r.ctx, Tail(rows)), LAMBDA rest :
             Ok(rest.ctx, <<[label |-> Head(rows).label, data |-> r.val]>> \o rest.val)))

(* for ex in &exprs[..n] { self.unify(ex.span, &ex.ty, &Type::unit())?; } *)
unify_each_unit(c, exprs, n) ==
    IF n = 0 THEN Ok(c, Unit)
    ELSE Try(unify(c, Head(exprs).ty, Type_unit), LAMBDA r :
             unify_each_unit(r.ctx, Tail(exprs), n - 1))

saturating_sub(a, b) == IF a >= b THEN a - b ELSE 0

(* the body of the Let arm: the closure handed to with_scope *)
elab_let_body(f, decls, body) ==
    Try(elab_decls(f, decls), LAMBDA ds : elaborate_expr(ds.ctx, body))

(* The two arms that build a boolean Case from two operands. *)
elab_andalso_orelse(c, expr) ==
    Try(elaborate_expr(c, expr.e1), LAMBDA e1 :
    Try(elaborate_expr(e1.ctx, expr.e2), LAMBDA e2 :
    Try(unify(e2.ctx, e1.val.ty, Type_bool), LAMBDA u1 :
    Try(unify(u1.ctx, e2.val.ty, Type_bool), LAMBDA u2 :
        IF expr.e = "Andalso"
          THEN elab_if(u2.ctx, e1.val, e2.val,
                       Expr_new([ek |-> "Con", con |-> C_FALSE, tys |-> <<>>], Type_bool))
          ELSE elab_if(u2.ctx, e1.val,
                       Expr_new([ek |-> "Con", con |-> C_TRUE, tys |-> <<>>], Type_bool), e2.val)))))

(* ty.de_arrow().ok_or_else(|| Diagnostic::bug(..))? followed by the rest *)
TryArrow(c, ty, k(_)) ==
    IF is_some(de_arrow(ty)) THEN k(de_arrow(ty).v)
    ELSE Err(c, Diagnostic_bug("match rules should have arrow type!", Unit))

elaborate_expr(c, expr) ==
    CASE expr.e \in {"Andalso", "Orelse"} -> elab_andalso_orelse(c, expr)
      [] expr.e = "App" ->
           Try(elaborate_expr(c, expr.e1), LAMBDA e1 :
           Try(elaborate_expr(e1.ctx, expr.e2), LAMBDA e2 :
           Try(fresh_tyvar(e2.ctx), LAMBDA f :
           Try(unify(f.ctx, e1.val.ty, Type_arrow(e2.val.ty, Var(f.val))), LAMBDA u :
               Ok(u.ctx, Expr_new([ek |-> "App", e1 |-> e1.val, e2 |-> e2.val], Var(f.val)))))))
      [] expr.e = "Case" ->
           Try(elaborate_expr(c, expr.scrutinee), LAMBDA casee :
           Try(elab_rules(casee.ctx, expr.rules), LAMBDA rs :
           TryArrow(rs.ctx, rs.val[2], LAMBDA ar :
           Try(unify(rs.ctx, casee.val.ty, ar[1]), LAMBDA u :
               Ok(u.ctx, Expr_new([ek |-> "Case", scrut |-> casee.val, rules |-> rs.val[1]],
                                  ar[2]))))))
      [] expr.e = "Const" ->
           Ok(c, Expr_new([ek |-> "Const", c |-> expr.c], const_ty(expr.c)))
      [] expr.e = "Constraint" ->
           Try(elaborate_expr(c, expr.e1), LAMBDA ex :
           Try(elaborate_type(ex.ctx, expr.ty, FALSE), LAMBDA ty :
           Try(unify(ty.ctx, ex.val.ty, ty.val), LAMBDA u :
               Ok(u.ctx, ex.val))))
      [] expr.e = "FlatApp" ->
           With(expr_precedence(c, expr.exprs), LAMBDA p :
               CASE p.res = "Ok" -> elaborate_expr(c, p.val)
                 [] p.res = "EndsInfix" ->
                      Err(c, Diagnostic_error("application pattern ends with an infix operator", Unit))
                 [] p.res = "InfixInPrefix" ->
                      Err(c, Diagnostic_error("application pattern starts with an infix operator", Unit))
                 [] p.res = "SamePrecedence" ->
                      Err(c, Diagnostic_error("application pattern mixes operators of equal precedence", Unit))
                 [] p.res = "InvalidOperator" ->
                      Err(c, Diagnostic_error("application pattern doesn't contain infix operator", Unit)))
      [] expr.e = "Fn" ->
           Try(elab_rules(c, expr.rules), LAMBDA rs :
           TryArrow(rs.ctx, rs.val[2], LAMBDA ar :
           Try(fresh_var(rs.ctx), LAMBDA gensym :
               Ok(gensym.ctx,
                  Expr_new([ek |-> "Lambda", sym |-> gensym.val,
                            body |-> Expr_new([ek |-> "Case",
                                               scrut |-> Expr_new([ek |-> "Var", sym |-> gensym.val], ar[1]),
                                               rules |-> rs.val[1]], ar[2])],
                           rs.val[2])))))
      [] expr.e = "Handle" ->
           Try(elaborate_expr(c, expr.e1), LAMBDA ex :
           Try(elab_rules(ex.ctx, expr.rules), LAMBDA rs :
           TryArrow(rs.ctx, rs.val[2], LAMBDA ar :
           Try(unify(rs.ctx, ex.val.ty, ar[2]), LAMBDA u1 :
           Try(unify(u1.ctx, ar[1], Type_exn), LAMBDA u2 :
               Ok(u2.ctx, Expr_new([ek |-> "Handle", e1 |-> ex.val, rules |-> rs.val[1]], ar[2])))))))
      [] expr.e = "Let" ->
           with_scope(c, LAMBDA f : elab_let_body(f, expr.decls, expr.body))
      [] expr.e = "List" ->
           Try(elab_exprs(c, expr.exprs), LAMBDA es :
           With([i \in 1..Len(es.val) |-> es.val[i].ty], LAMBDA tys :
           Try(unify_list(es.ctx, tys), LAMBDA u :
               IF tys = <<>> THEN Panic(u.ctx)
               ELSE Ok(u.ctx, Expr_new([ek |-> "List", exprs |-> es.val], tys[1])))))
      [] expr.e = "Raise" ->
           Try(fresh_tyvar(c), LAMBDA ty :
           Try(elaborate_expr(ty.ctx, expr.e1), LAMBDA ex :
           Try(unify(ex.ctx, ex.val.ty, Type_exn), LAMBDA u :
               Ok(u.ctx, Expr_new([ek |-> "Raise", e1 |-> ex.val], Var(ty.val))))))
      [] expr.e = "Record" ->
           Try(elab_rows(c, expr.rows), LAMBDA rows :
               Ok(rows.ctx,
                  Expr_new([ek |-> "Record", rows |-> rows.val],
                           Record([i \in 1..Len(rows.val) |->
                                     [label |-> rows.val[i].label, data |-> rows.val[i].data.ty]]))))
      [] expr.e = "Selector" -> Panic(c)
      [] expr.e = "Seq" ->
           Try(elab_exprs(c, expr.exprs), LAMBDA es :
           Try(unify_each_unit(es.ctx, es.val, saturating_sub(Len(es.val), 2)), LAMBDA u :
               IF es.val = <<>> THEN Panic(u.ctx)
               ELSE Ok(u.ctx, Expr_new([ek |-> "Seq", exprs |-> es.val], es.val[Len(es.val)].ty))))
      [] expr.e = "Var" ->
           With(lookup_value(c, expr.sym), LAMBDA v :
               IF is_some(v)
                 THEN Try(instantiate(c, v.v[1]), LAMBDA ty :
                          Ok(ty.ctx, Expr_new([ek |-> "Var", sym |-> expr.sym], ty.val)))
                 ELSE Err(c, Diagnostic_error("unbound variable", expr.sym)))
      [] OTHER -> Err(c, Diagnostic_error("unknown expr", expr.e))

(* a declaration loop that recovers: it goes on after a failure and       *)
(* reports the first one at the end                                       *)
RECURSIVE elab_decls_recovering(_, _)
elab_decls_recovering(c, decls) ==
    IF decls = <<>> THEN Ok(c, Unit)
    ELSE With(elaborate_decl(c, Head(decls)), LAMBDA r :
         With(elab_decls_recovering(r.ctx, Tail(decls)), LAMBDA rest :
             IF r.res = "Panic" THEN r
             ELSE IF r.res = "Err" /\ rest.res # "Panic" THEN [r EXCEPT !.ctx = rest.ctx]
             ELSE rest))

(* for decl in decls { f.elaborate_decl(decl)?; } *)
elab_decls(c, decls) ==
    IF decls = <<>> THEN Ok(c, Unit)
    ELSE Try(elaborate_decl(c, Head(decls)), LAMBDA r : elab_decls(r.ctx, Tail(decls)))

elab_decl_seq(c, decls) == elab_decls(c, decls)

(* the closure handed to with_scope by elab_decl_local *)
elab_local_body(f, decls, body) ==
    Try(elaborate_decl(f, decls), LAMBDA d : elaborate_decl(d.ctx, body))

elab_decl_local(c, decls, body) ==
    with_scope(c, LAMBDA f : elab_local_body(f, decls, body))

(* the closure handed to with_tyvars by elab_decl_type *)
elab_typebind_body(f, typebind) ==
    Try(elaborate_type(push_tyvars(f, typebind.tyvars), typebind.ty, FALSE), LAMBDA ty :
        IF Len(typebind.tyvars) = 0 THEN Ok(ty.ctx, Mono(ty.val))
        ELSE Try(lookup_tyvars_unwrap(ty.ctx, typebind.tyvars), LAMBDA tvs :
                 Ok(ty.ctx, Poly(tvs.val, ty.val))))

elab_decl_type_from(c, tbs, i) ==
    IF i > Len(tbs) THEN Ok(c, Unit)
    ELSE Try(IF tbs[i].tyvars # <<>>
               THEN with_tyvars(c, LAMBDA f : elab_typebind_body(f, tbs[i]))
               ELSE Try(elaborate_type(c, tbs[i].ty, FALSE), LAMBDA mono :
                        Ok(mono.ctx, Mono(mono.val))),
             LAMBDA scheme :
                 elab_decl_type_from(
                     define_type(scheme.ctx, tbs[i].tycon, TypeStructure_Scheme(scheme.val)).ctx,
                     tbs, i + 1))

elab_decl_type(c, tbs) == elab_decl_type_from(c, tbs, 1)

(* one constructor of elab_decl_conbind's loop, once its name is known to  *)
(* be free: ty is its type, c1 the context after elaborating its argument  *)
define_constructor(c1, con, ty, type_id, tyvars, tag) ==
    define_value(c1, con.label,
                 IF Len(tyvars) = 0 THEN Mono(ty) ELSE Poly(tyvars, ty),
                 IdStatus_Con(Constructor(con.label, type_id, tag))).ctx

(* the loop over db.constructors in elab_decl_conbind; tag counts from 0 *)
elab_conbinds(c, db, tycon, type_id, tyvars, tag) ==
    IF tag >= Len(db.constructors) THEN Ok(c, Unit)
    ELSE With(At(db.constructors, tag), LAMBDA con :
         With(Con(tycon, [i \in 1..Len(tyvars) |-> Var(tyvars[i])]), LAMBDA res :
             IF is_some(lookup_value(c, con.label))
               THEN Err(c, Diagnostic_error("rebinding of data constructor is disallowed", con.label))
             ELSE IF is_some(con.data)
               THEN Try(elaborate_type(c, con.data.v, FALSE), LAMBDA dom :
                        elab_conbinds(define_constructor(dom.ctx, con, Type_arrow(dom.val, res),
                                                         type_id, tyvars, tag),
                                      db, tycon, type_id, tyvars, tag + 1))
             ELSE elab_conbinds(define_constructor(c, con, res, type_id, tyvars, tag),
                                db, tycon, type_id, tyvars, tag + 1)))

elab_decl_conbind(c, db) ==
    With(lookup_typeid(c, db.tycon), LAMBDA type_id :
        IF ~is_some(type_id) THEN Panic(c)
        ELSE Try(lookup_tyvars_unwrap(c, db.tyvars), LAMBDA tyvars :
                 elab_conbinds(c, db, Tycon_new(db.tycon, Len(db.tyvars)), type_id.v, tyvars.val, 0)))

(* first pass of elab_decl_datatype: install every tycon *)
elab_datatype_tycons(c, dbs) ==
    IF dbs = <<>> THEN c
    ELSE elab_datatype_tycons(
             define_type(c, Head(dbs).tycon,
                         TypeStructure_Tycon(Tycon_new(Head(dbs).tycon, Len(Head(dbs).tyvars)))).ctx,
             Tail(dbs))

(* second pass: the constructors of each datatype, under its tyvars *)
elab_datatype_conbinds(c, dbs) ==
    IF dbs = <<>> THEN Ok(c, Unit)
    ELSE Try(with_tyvars(c, LAMBDA f : elab_decl_conbind(push_tyvars(f, Head(dbs).tyvars), Head(dbs))),
             LAMBDA r : elab_datatype_conbinds(r.ctx, Tail(dbs)))

elab_decl_datatype(c, dbs) == elab_datatype_conbinds(elab_datatype_tycons(c, dbs), dbs)

ExnTypeId == 8

elab_decl_exception(c, exns) ==
    IF exns = <<>> THEN Ok(c, Unit)
    ELSE With(IdStatus_Exn(Constructor(Head(exns).label, ExnTypeId, 0)), LAMBDA status :
           IF is_some(Head(exns).data)
             THEN Try(elaborate_type(c, Head(exns).data.v, FALSE), LAMBDA ty :
                      elab_decl_exception(
                          define_value(ty.ctx, Head(exns).label,
                                       Mono(Type_arrow(ty.val, Type_exn)), status).ctx,
                          Tail(exns)))
             ELSE elab_decl_exception(
                      define_value(c, Head(exns).label, Mono(Type_exn), status).ctx, Tail(exns)))

(* for Binding { var, tv } in bindings: generalize, then define_value *)
define_bindings(c, bindings) ==
    IF bindings = <<>> THEN c
    ELSE define_bindings(
             define_value(c, Head(bindings).var, generalize(c, Var(Head(bindings).tv)),
                          IdStatus_Var).ctx,
             Tail(bindings))

(* the Value arm of elaborate_decl *)
elab_decl_value(c, decl) ==
    Try(elaborate_expr(c, decl.expr), LAMBDA expr :
    Try(elaborate_pat(expr.ctx, decl.pat, FALSE), LAMBDA pat :
    Try(unify(pat.ctx, pat.val[1].ty, expr.val.ty), LAMBDA u :
        Ok(define_bindings(u.ctx, pat.val[2]), Unit))))

elaborate_decl(c, decl) ==
    CASE decl.d = "Datatype" -> elab_decl_datatype(c, decl.dbs)
      [] decl.d = "Type" -> elab_decl_type(c, decl.tbs)
      [] decl.d = "Function" -> Panic(c)
      [] decl.d = "Value" -> elab_decl_value(c, decl)
      [] decl.d = "Exception" -> elab_decl_exception(c, decl.exns)
      [] decl.d = "Fixity" -> elab_decl_fixity(c, decl.fixity, decl.bp, decl.sym)
      [] decl.d = "Local" -> elab_decl_local(c, decl.decls, decl.body)
      [] decl.d = "Seq" -> elab_decl_seq(c, decl.decls)
      [] decl.d = "Do" -> Panic(c)

----------------------------------------------------------------------------
(* Inputs: the symbols, surface expressions and declarations the steps     *)
(* below draw from.                                                        *)

UserSyms == {"x", "y"}
ValueSyms == UserSyms \cup {S_NIL, S_TRUE, S_FALSE, "z"}
InfixSyms == {"+"}
TypeSyms == {"t", "int", "unit", "u"}
TyvarSyms == {"'a"}
Precedences == {4, U8Max}

EConst(k) == [e |-> "Const", c |-> k]
EVar(sym) == [e |-> "Var", sym |-> sym]
ESeq(exprs) == [e |-> "Seq", exprs |-> exprs]
EApp(e1, e2) == [e |-> "App", e1 |-> e1, e2 |-> e2]
EFn(rules) == [e |-> "Fn", rules |-> rules]
ELet(decls, body) == [e |-> "Let", decls |-> decls, body |-> body]
EFlatApp(exprs) == [e |-> "FlatApp", exprs |-> exprs]
EIf(e1, e2, e3) == [e |-> "If", e1 |-> e1, e2 |-> e2, e3 |-> e3]
EAndalso(e1, e2) == [e |-> "Andalso", e1 |-> e1, e2 |-> e2]
EOrelse(e1, e2) == [e |-> "Orelse", e1 |-> e1, e2 |-> e2]
EList(exprs) == [e |-> "List", exprs |-> exprs]
ERecord(rows) == [e |-> "Record", rows |-> rows]
ECase(scrutinee, rules) == [e |-> "Case", scrutinee |-> scrutinee, rules |-> rules]
ARow(label, data) == [label |-> label, data |-> data]
PVar(sym) == [p |-> "Var", sym |-> sym]
PWild == [p |-> "Wild"]
ARule(pat, expr) == [pat |-> pat, expr |-> expr]
TCon(name, args) == [t |-> "Con", name |-> name, args |-> args]
TVar(sym) == [t |-> "Var", sym |-> sym]
DValue(pat, expr) == [d |-> "Value", pat |-> pat, expr |-> expr]
DFixity(fixity, bp, sym) == [d |-> "Fixity", fixity |-> fixity, bp |-> bp, sym |-> sym]
DSeq(decls) == [d |-> "Seq", decls |-> decls]
DLocal(decls, body) == [d |-> "Local", decls |-> decls, body |-> body]
DDatatype(dbs) == [d |-> "Datatype", dbs |-> dbs]
DType(tbs) == [d |-> "Type", tbs |-> tbs]
DException(exns) == [d |-> "Exception", exns |-> exns]
Variant(label, data) == [label |-> label, data |-> data]

IdFn == EFn(<<ARule(PVar("x"), EVar("x"))>>)

(* Constants of the four kinds that matter to Seq *)
SeqItems == {EConst("Int"), EConst("Unit")}

(* Expressions that are syntactic values, and expressions that are not *)
ValueExprs == {EConst("Int"), EConst("Unit"), EVar(S_NIL), EVar("x"), EVar("z"), IdFn}
NonValueExprs ==
    {EApp(IdFn, EConst("Int")), EApp(IdFn, EVar(S_NIL)), EApp(IdFn, IdFn), EApp(EConst("Int"), EConst("Int"))}

SeqExprs ==
    {ESeq(<<a, b>>) : a \in SeqItems, b \in SeqItems}
      \cup {ESeq(<<a, b, d>>) : a \in SeqItems, b \in SeqItems, d \in SeqItems}

UnsupportedExprs ==
    {[e |-> "Selector", sym |-> "x"],
     [e |-> "While", e1 |-> EVar(S_TRUE), e2 |-> EConst("Unit")],
     EIf(EVar(S_TRUE), EConst("Int"), EConst("Int")),
     EIf(EConst("Int"), EConst("Int"), EConst("Int"))}

SimpleDecls ==
    {DValue(PVar("x"), EConst("Int")),
     DValue(PVar("y"), EVar("z")),
     DFixity("Infix", 4, "+"),
     DFixity("Nonfix", 0, S_CONS)}

LetExprs ==
    {ELet(<<d>>, b) : d \in SimpleDecls, b \in {EVar("x"), EConst("Int")}}
      \cup {ELet(<<DValue(PVar("x"), EConst("Int")), DFixity("Infixr", 0, "+")>>, EVar("z")),
            ELet(<<DValue(PVar("x"), EConst("Int"))>>,
                 ELet(<<DValue(PVar("y"), EVar("x")), DFixity("Infix", 0, S_CONS)>>, EVar("y")))}

(* f 1,  1 :: nil,  :: 1 *)
FlatAppExprs ==
    {EFlatApp(<<IdFn, EConst("Int")>>),
     EFlatApp(<<EConst("Int"), EVar(S_CONS), EVar(S_NIL)>>),
     EFlatApp(<<EVar(S_CONS), EConst("Int")>>)}

(* true andalso false, 1 andalso true, true andalso 1, and the same three   *)
(* for orelse                                                              *)
BoolExprs ==
    {EAndalso(EVar(S_TRUE), EVar(S_FALSE)), EAndalso(EConst("Int"), EVar(S_TRUE)),
     EAndalso(EVar(S_TRUE), EConst("Int")),
     EOrelse(EVar(S_TRUE), EVar(S_FALSE)), EOrelse(EConst("Int"), EVar(S_TRUE)),
     EOrelse(EVar(S_TRUE), EConst("Int"))}

(* [],  [1, 1],  [1, ()],  [nil] *)
ListExprs ==
    {EList(<<>>), EList(<<EConst("Int"), EConst("Int")>>),
     EList(<<EConst("Int"), EConst("Unit")>>), EList(<<EVar(S_NIL)>>)}

(* {a = 1, b = ()},  {a = 1, a = ()},  {a = 1, a = 1},  {a = z} *)
RecordExprs ==
    {ERecord(<<ARow("a", EConst("Int")), ARow("b", EConst("Unit"))>>),
     ERecord(<<ARow("a", EConst("Int")), ARow("a", EConst("Unit"))>>),
     ERecord(<<ARow("a", EConst("Int")), ARow("a", EConst("Int"))>>),
     ERecord(<<ARow("a", EVar("z"))>>)}

(* fn x => x | y => x,  fn x => x | y => y,  case 1 of x => x | y => x,    *)
(* case 1 of x => x | _ => 1                                               *)
MatchExprs ==
    {EFn(<<ARule(PVar("x"), EVar("x")), ARule(PVar("y"), EVar("x"))>>),
     EFn(<<ARule(PVar("x"), EVar("x")), ARule(PVar("y"), EVar("y"))>>),
     ECase(EConst("Int"), <<ARule(PVar("x"), EVar("x")), ARule(PVar("y"), EVar("x"))>>),
     ECase(EConst("Int"), <<ARule(PVar("x"), EVar("x")), ARule(PWild, EConst("Int"))>>)}

Exprs ==
    ValueExprs \cup NonValueExprs \cup SeqExprs \cup UnsupportedExprs \cup LetExprs
      \cup FlatAppExprs \cup BoolExprs \cup ListExprs \cup RecordExprs
      \cup MatchExprs

ValueDecls ==
    {DValue(PVar(s), e) : s \in UserSyms, e \in ValueExprs \cup NonValueExprs}
      \cup {DValue(PWild, EConst("Int")), DValue(PVar("x"), ESeq(<<EConst("Int"), EConst("Unit")>>))}

UnsupportedDecls ==
    {[d |-> "Function", tyvars |-> <<>>, fbs |-> <<>>], [d |-> "Do", expr |-> EConst("Unit")]}

SeqDecls ==
    {DSeq(<<a, b, d>>) : a \in {DValue(PVar("x"), EConst("Int"))},
                         b \in {DValue(PVar("y"), EVar("x")), DValue(PVar("y"), EVar("z"))},
                         d \in {DFixity("Infix", 4, "+"), DValue(PVar("x"), EVar("z"))}}
      \cup {DSeq(<<>>), DSeq(<<DValue(PVar("y"), EVar("z")), [d |-> "Do", expr |-> EConst("Unit")]>>)}

TypeDecls ==
    {DType(<<[tycon |-> "t", tyvars |-> <<>>, ty |-> TCon("int", <<>>)]>>),
     DType(<<[tycon |-> "t", tyvars |-> <<"'a">>, ty |-> TCon("list", <<TVar("'a")>>)]>>),
     DType(<<[tycon |-> "t", tyvars |-> <<"'a">>, ty |-> TCon("u", <<>>)]>>),
     DDatatype(<<[tycon |-> "t", tyvars |-> <<"'a">>,
                  constructors |-> <<Variant("x", None), Variant("y", Some(TVar("'a")))>>]>>),
     DDatatype(<<[tycon |-> "t", tyvars |-> <<"'a">>,
                  constructors |-> <<Variant("x", None), Variant("y", Some(TCon("u", <<>>)))>>]>>),
     DDatatype(<<[tycon |-> "t", tyvars |-> <<>>,
                  constructors |-> <<Variant("y", None), Variant("y", None)>>]>>),
     DDatatype(<<[tycon |-> "t", tyvars |-> <<>>,
                  constructors |-> <<Variant("y", None), Variant(S_NIL, None)>>]>>),
     DException(<<Variant("x", None)>>)}

LocalDecls ==
    {DLocal(DValue(PVar("x"), EConst("Int")), b) :
        b \in {DValue(PVar("y"), EVar("x")), DValue(PVar("y"), EVar("z"))}}

Decls ==
    ValueDecls \cup UnsupportedDecls \cup SeqDecls \cup TypeDecls \cup LocalDecls
      \cup {d \in SimpleDecls : d.d = "Fixity"}

----------------------------------------------------------------------------
(* The state machine: Context::new, then any sequence of the Context's     *)
(* operations. with_scope and with_tyvars are entered and left in separate *)
(* steps, their bodies being the steps in between; elaborate_decl and      *)
(* elaborate_expr are single steps.                                        *)

RECURSIVE InfixEntries(_, _)
InfixEntries(c, i) ==
    IF i >= Len(c.namespaces) THEN 0
    ELSE Cardinality(DOMAIN Frame(c, i).infix) + InfixEntries(c, i + 1)

WithinBounds(c) ==
    /\ Len(c.namespaces) <= MaxFrames
    /\ InfixEntries(c, 0) <= MaxInfix
    /\ Len(c.values) <= MaxValues
    /\ Len(c.types) <= MaxTypes
    /\ c.tyvar_id <= MaxTyvarId
    /\ c.var_id <= MaxVarId
    /\ Len(c.tyvars) <= MaxTyvarStack

Running == last.res # "Panic"

Init ==
    /\ overflow_checks \in BOOLEAN
    /\ ctx = Context_new
    /\ calls = <<>>
    /\ last = Step("new", Unit, "Ok", Unit)
    /\ elab_calls = 0
    /\ arena = ExprArena_new
    /\ gensyms = <<>>

(* The symbols Context::fresh_var returned while a call took the context  *)
(* from c to c2: one for every value var_id went through.                 *)
GensymsOf(c, c2) ==
    [i \in 1..(c2.var_id - c.var_id) |-> Symbol_Gensym(c.var_id + i - 1)]

(* Adopt the outcome r of a call that returns Result or panics. *)
Adopt(op, arg, r) ==
    /\ WithinBounds(r.ctx)
    /\ ctx' = r.ctx
    /\ last' = Step(op, arg, r.res, r.val)
    /\ gensyms' = gensyms \o GensymsOf(ctx, r.ctx)
    /\ UNCHANGED <<calls, overflow_checks, arena>>

Returns(op, arg, r) == Adopt(op, arg, r) /\ UNCHANGED elab_calls

Call_define_type ==
    /\ Running
    /\ \E sym \in {"t"}, tystr \in {TypeStructure_Scheme(Mono(Con(T_INT, <<>>)))} :
          Returns("define_type", sym, define_type(ctx, sym, tystr))

Call_define_value ==
    /\ Running
    /\ \E sym \in {"x", S_TRUE}, scheme \in {Mono(Con(T_INT, <<>>))} :
          Returns("define_value", sym, define_value(ctx, sym, scheme, IdStatus_Var))

Call_elab_decl_fixity ==
    /\ Running
    /\ \E fixity \in {"Infix", "Infixr", "Nonfix"}, bp \in Precedences, sym \in InfixSyms :
          Returns("elab_decl_fixity", <<fixity, bp, sym>>, elab_decl_fixity(ctx, fixity, bp, sym))

Call_fresh_tyvar ==
    /\ Running
    /\ Returns("fresh_tyvar", Unit, fresh_tyvar(ctx))

Call_fresh_var ==
    /\ Running
    /\ Returns("fresh_var", Unit, fresh_var(ctx))

Call_allocate_id ==
    /\ Running
    /\ arena.fresh < MaxArenaFresh
    /\ arena' = allocate_id(arena)[1]
    /\ gensyms' = Append(gensyms, allocate_id(arena)[2])
    /\ last' = Step("allocate_id", Unit, "Ok", allocate_id(arena)[2])
    /\ UNCHANGED <<ctx, calls, overflow_checks, elab_calls>>

Call_ExprArena_fresh_var ==
    /\ Running
    /\ arena.fresh < MaxArenaFresh
    /\ arena' = ExprArena_fresh_var(arena)[1]
    /\ gensyms' = Append(gensyms, ExprArena_fresh_var(arena)[2].sym)
    /\ last' = Step("ExprArena::fresh_var", Unit, "Ok", ExprArena_fresh_var(arena)[2])
    /\ UNCHANGED <<ctx, calls, overflow_checks, elab_calls>>

Enter_with_scope ==
    /\ Running
    /\ Len(calls) < MaxCalls
    /\ WithinBounds(with_scope_enter(ctx))
    /\ ctx' = with_scope_enter(ctx)
    /\ calls' = Append(calls, [fn |-> "with_scope", prev |-> ctx.current,
                                next |-> Len(ctx.namespaces)])
    /\ last' = Step("enter with_scope", Unit, "Ok", Unit)
    /\ UNCHANGED <<overflow_checks, elab_calls, arena, gensyms>>

(* The body f returned r (Ok or Err): with_scope restores current. *)
Exit_with_scope ==
    /\ Running
    /\ calls # <<>>
    /\ calls[Len(calls)].fn = "with_scope"
    /\ \E r \in {"Ok", "Err"} :
          /\ ctx' = with_scope_exit(ctx, calls[Len(calls)].prev)
          /\ last' = Step("with_scope", Unit, r, Unit)
    /\ calls' = SubSeq(calls, 1, Len(calls) - 1)
    /\ UNCHANGED <<overflow_checks, elab_calls, arena, gensyms>>

Enter_with_tyvars ==
    /\ Running
    /\ Len(calls) < MaxCalls
    /\ calls' = Append(calls, [fn |-> "with_tyvars", n |-> Len(ctx.tyvars)])
    /\ last' = Step("enter with_tyvars", Unit, "Ok", Unit)
    /\ UNCHANGED <<ctx, overflow_checks, elab_calls, arena, gensyms>>

(* Inside a with_tyvars body: v = fresh_tyvar(); tyvars.push(s, v) *)
Push_tyvar ==
    /\ Running
    /\ calls # <<>>
    /\ calls[Len(calls)].fn = "with_tyvars"
    /\ \E s \in TyvarSyms :
          Returns("push_tyvars", s, Ok(push_tyvars(ctx, <<s>>), Unit))

Exit_with_tyvars ==
    /\ Running
    /\ calls # <<>>
    /\ calls[Len(calls)].fn = "with_tyvars"
    /\ \E r \in {"Ok", "Err"} :
          /\ ctx' = with_tyvars_exit(ctx, calls[Len(calls)].n)
          /\ last' = Step("with_tyvars", Unit, r, Unit)
    /\ calls' = SubSeq(calls, 1, Len(calls) - 1)
    /\ UNCHANGED <<overflow_checks, elab_calls, arena, gensyms>>

Call_elab_decl_type ==
    /\ Running
    /\ elab_calls < MaxElabCalls
    /\ elab_calls' = elab_calls + 1
    /\ \E d \in TypeDecls :
          d.d = "Type" /\ Adopt("elab_decl_type", d, elab_decl_type(ctx, d.tbs))

Call_elab_decl_datatype ==
    /\ Running
    /\ elab_calls < MaxElabCalls
    /\ elab_calls' = elab_calls + 1
    /\ \E d \in TypeDecls :
          d.d = "Datatype" /\ Adopt("elab_decl_datatype", d, elab_decl_datatype(ctx, d.dbs))

Call_elaborate_decl ==
    /\ Running
    /\ elab_calls < MaxElabCalls
    /\ elab_calls' = elab_calls + 1
    /\ \E d \in Decls : Adopt("elaborate_decl", d, elaborate_decl(ctx, d))

Call_elaborate_expr ==
    /\ Running
    /\ elab_calls < MaxElabCalls
    /\ elab_calls' = elab_calls + 1
    /\ \E e \in Exprs : Adopt("elaborate_expr", e, elaborate_expr(ctx, e))

(* The scope operations: definitions and fixities in nested scopes. *)
Next ==
    \/ Call_define_type
    \/ Call_define_value
    \/ Call_elab_decl_fixity
    \/ Enter_with_scope
    \/ Exit_with_scope

Spec == Init /\ [][Next]_vars

(* The fresh-name counters and the type-variable binder stack, with the    *)
(* declarations that bind type variables of their own.                     *)
NextTyvars ==
    \/ Call_fresh_tyvar
    \/ Call_fresh_var
    \/ Enter_with_tyvars
    \/ Push_tyvar
    \/ Exit_with_tyvars
    \/ Call_elab_decl_type
    \/ Call_elab_decl_datatype

SpecTyvars == Init /\ [][NextTyvars]_vars

(* The generators of fresh symbols of one compilation: the Context's and  *)
(* the expression arena's.                                                *)
NextGensym ==
    \/ Call_fresh_var
    \/ Call_fresh_tyvar
    \/ Call_allocate_id
    \/ Call_ExprArena_fresh_var

SpecGensym == Init /\ [][NextGensym]_vars

(* Elaboration of whole declarations and expressions, at any scope depth. *)
NextElab ==
    \/ Call_elaborate_decl
    \/ Call_elaborate_expr
    \/ Enter_with_scope
    \/ Exit_with_scope

SpecElab == Init /\ [][NextElab]_vars

----------------------------------------------------------------------------
(* Properties *)

Top(s) == s[Len(s)]
IsPrefix(a, b) == Len(a) <= Len(b) /\ SubSeq(b, 1, Len(a)) = a
AllSyms == ValueSyms \cup TypeSyms \cup InfixSyms \cup {S_CONS}

(* The frames reachable from frame i through parent links, nearest first. *)
RECURSIVE Chain(_, _)
Chain(c, i) ==
    <<i>> \o (IF is_some(Frame(c, i).parent) THEN Chain(c, Frame(c, i).parent.v) ELSE <<>>)

OnChain(c, i) == \E k \in 1..Len(Chain(c, c.current)) : Chain(c, c.current)[k] = i

(* What the nearest frame of the chain that binds sym in `field` holds. *)
Nearest(c, field, sym) ==
    LET ch == Chain(c, c.current)
        hits == {k \in 1..Len(ch) : sym \in DOMAIN Frame(c, ch[k])[field]}
    IN  IF hits = {} THEN None
        ELSE Some(Frame(c, ch[CHOOSE k \in hits : \A j \in hits : k <= j])[field][sym])

(* C1: every with_scope call, whatever its body returns, runs the body     *)
(* with current = the index of a frame it has just pushed, whose parent is *)
(* the current of the call's entry, and returns with current back at its   *)
(* entry value; this holds at every nesting depth, for bodies made of      *)
(* whole elaborations too.                                                 *)
C1_WithScopeRestoresCurrent ==
    [][/\ (last'.op = "enter with_scope" =>
              /\ ctx'.current = Len(ctx.namespaces)
              /\ Len(ctx'.namespaces) = Len(ctx.namespaces) + 1
              /\ Frame(ctx', ctx'.current).parent = Some(ctx.current)
              /\ Top(calls').prev = ctx.current)
       /\ (calls' # <<>> /\ last'.res # "Panic" =>
              /\ ctx'.current = Top(calls').next
              /\ Frame(ctx', ctx'.current).parent = Some(Top(calls').prev)
              /\ \A j \in 1..(Len(calls') - 1) : calls'[j].next = calls'[j + 1].prev)
       /\ (last'.op = "with_scope" =>
              /\ ctx'.current = Top(calls).prev
              /\ ctx'.namespaces = ctx.namespaces)
       /\ (last'.op \in {"elaborate_decl", "elaborate_expr"} /\ last'.res # "Panic" =>
              ctx'.current = ctx.current)
      ]_vars

(* a nested with_scope whose body failed has returned into the body of the *)
(* enclosing call, and current is the enclosing call's frame again         *)
C1_Witness ==
    /\ last.op = "with_scope"
    /\ last.res = "Err"
    /\ calls # <<>>
    /\ ctx.current = Top(calls).next
    /\ \E i \in 0..(Len(ctx.namespaces) - 1) : Frame(ctx, i).parent = Some(ctx.current)

(* C2: after elaborate_expr of a Let returns (Ok or Err), every            *)
(* lookup_value and lookup_infix from the enclosing scope gives what it    *)
(* gave before the call: nothing the inner declarations introduced is      *)
(* resolvable.                                                             *)
C2_LetScopeHygiene ==
    [][last'.op = "elaborate_expr" /\ last'.arg.e = "Let" /\ last'.res # "Panic" =>
          /\ \A sym \in AllSyms : lookup_value(ctx', sym) = lookup_value(ctx, sym)
          /\ \A sym \in AllSyms : lookup_infix(ctx', sym) = lookup_infix(ctx, sym)
      ]_vars

(* a Let that bound x and declared + infix, then failed in its body:       *)
(* both sit in a frame of the vector, neither resolves                     *)
C2_Witness ==
    /\ last.op = "elaborate_expr"
    /\ last.arg = ELet(<<DValue(PVar("x"), EConst("Int")), DFixity("Infixr", 0, "+")>>, EVar("z"))
    /\ last.res = "Err"
    /\ \E i \in 0..(Len(ctx.namespaces) - 1) :
          "x" \in DOMAIN Frame(ctx, i).values /\ "+" \in DOMAIN Frame(ctx, i).infix
    /\ lookup_value(ctx, "x") = None
    /\ lookup_infix(ctx, "+") = None

(* C3: each lookup returns the binding held by the nearest frame on the    *)
(* chain current, parent(current), ..., root, and None exactly when no     *)
(* frame of the chain binds the symbol.                                    *)
C3_LookupNearestOnChain ==
    \A sym \in AllSyms :
        /\ lookup_typeid(ctx, sym) = Nearest(ctx, "types", sym)
        /\ lookup_infix(ctx, sym) = Nearest(ctx, "infix", sym)
        /\ lookup_type(ctx, sym) =
             (IF is_some(Nearest(ctx, "types", sym))
                THEN Some(At(ctx.types, Nearest(ctx, "types", sym).v)) ELSE None)
        /\ lookup_value(ctx, sym) =
             (IF is_some(Nearest(ctx, "values", sym))
                THEN Some(At(ctx.values, Nearest(ctx, "values", sym).v)) ELSE None)

(* x is bound only in an exited sibling scope and does not resolve, while  *)
(* the current frame's binding of true shadows the root's                  *)
C3_Witness ==
    /\ ctx.current # 0
    /\ \E i \in 0..(Len(ctx.namespaces) - 1) :
          ~OnChain(ctx, i) /\ "x" \in DOMAIN Frame(ctx, i).values
    /\ lookup_value(ctx, "x") = None
    /\ S_TRUE \in DOMAIN Frame(ctx, ctx.current).values
    /\ lookup_value(ctx, S_TRUE) = Some(<<Mono(Con(T_INT, <<>>)), IdStatus_Var>>)

(* C4: no step removes or changes an entry of the types or values table,   *)
(* and define_type / define_value return the table length before the call *)
(* and file the new entry there.                                           *)
C4_TablesAppendOnly ==
    [][/\ IsPrefix(ctx.types, ctx'.types)
       /\ IsPrefix(ctx.values, ctx'.values)
       /\ (last'.op = "define_type" =>
              /\ last'.ret = Len(ctx.types)
              /\ Len(ctx'.types) = Len(ctx.types) + 1
              /\ Frame(ctx', ctx'.current).types[last'.arg] = last'.ret)
       /\ (last'.op = "define_value" =>
              /\ last'.ret = Len(ctx.values)
              /\ Len(ctx'.values) = Len(ctx.values) + 1
              /\ Frame(ctx', ctx'.current).values[last'.arg] = last'.ret)
      ]_vars

(* an id handed out inside a scope that has since been left still indexes  *)
(* its entry, after a later definition                                     *)
C4_Witness ==
    /\ last.op = "define_value"
    /\ \E i \in 0..(Len(ctx.namespaces) - 1) :
          /\ ~OnChain(ctx, i)
          /\ "x" \in DOMAIN Frame(ctx, i).values
          /\ Frame(ctx, i).values["x"] < last.ret
          /\ IndexValue(ctx, Frame(ctx, i).values["x"]) = <<Mono(Con(T_INT, <<>>)), IdStatus_Var>>

(* C5: while a with_tyvars call is open no step touches the binders below  *)
(* the height recorded at its entry, and its return leaves exactly those;  *)
(* a Type or Datatype declaration, which runs its with_tyvars calls to     *)
(* their end, returns Ok or Err with the stack it was given.               *)
C5_WithTyvarsRestoresStack ==
    [][/\ (last'.op = "enter with_tyvars" =>
              Top(calls').n = Len(ctx.tyvars) /\ ctx'.tyvars = ctx.tyvars)
       /\ \A j \in 1..Len(calls) :
              calls[j].fn = "with_tyvars" /\ last'.res # "Panic" =>
                 /\ Len(ctx'.tyvars) >= calls[j].n
                 /\ \A k \in 1..calls[j].n : ctx'.tyvars[k] = ctx.tyvars[k]
       /\ (last'.op = "with_tyvars" => Len(ctx'.tyvars) = Top(calls).n)
       /\ (last'.op \in {"elab_decl_type", "elab_decl_datatype"} /\ last'.res # "Panic" =>
              ctx'.tyvars = ctx.tyvars)
      ]_vars

(* inside an open with_tyvars holding one binder, a Datatype declaration   *)
(* bound its own 'a and failed on a constructor argument: the enclosing    *)
(* binder is still there, alone                                            *)
C5_Witness ==
    /\ last.op = "elab_decl_datatype"
    /\ last.res = "Err"
    /\ last.ret = Diagnostic_error("unbound type", "u")
    /\ calls # <<>>
    /\ Top(calls).fn = "with_tyvars"
    /\ Len(ctx.tyvars) = 1
    /\ ctx.tyvar_id > ctx.tyvars[1][2] + 1

(* C6: elaborate_decl of Seq(<<d1, d2, d3>>) stops at the first failing    *)
(* declaration: it returns that declaration's diagnostic and leaves the    *)
(* context as that declaration left it, so the earlier definitions remain  *)
(* and the later declarations change nothing.                              *)
C6_SeqStopsAtFirstError ==
    [][last'.op = "elaborate_decl" /\ last'.arg.d = "Seq" /\ Len(last'.arg.decls) = 3 =>
          LET ds == last'.arg.decls
              r1 == elaborate_decl(ctx, ds[1])
              r2 == elaborate_decl(r1.ctx, ds[2])
              r3 == elaborate_decl(r2.ctx, ds[3])
          IN  /\ (r1.res = "Err" =>
                     last'.res = "Err" /\ last'.ret = r1.val /\ ctx' = r1.ctx)
              /\ (r1.res = "Ok" /\ r2.res = "Err" =>
                     /\ last'.res = "Err" /\ last'.ret = r2.val /\ ctx' = r2.ctx
                     /\ IsPrefix(r1.ctx.values, ctx'.values))
              /\ (r1.res = "Ok" /\ r2.res = "Ok" /\ r3.res = "Err" =>
                     /\ last'.res = "Err" /\ last'.ret = r3.val /\ ctx' = r3.ctx
                     /\ IsPrefix(r2.ctx.values, ctx'.values))
      ]_vars

(* val x = 1; val y = z; infix 4 +  has failed on z: x is defined, y and   *)
(* the fixity of + are not                                                 *)
C6_Witness ==
    /\ last.op = "elaborate_decl"
    /\ last.arg = DSeq(<<DValue(PVar("x"), EConst("Int")), DValue(PVar("y"), EVar("z")),
                         DFixity("Infix", 4, "+")>>)
    /\ last.res = "Err"
    /\ last.ret = Diagnostic_error("unbound variable", "z")
    /\ is_some(lookup_value(ctx, "x"))
    /\ lookup_value(ctx, "y") = None
    /\ lookup_infix(ctx, "+") = None

(* C7: elaborate_decl and elaborate_expr return Ok or Err for every        *)
(* surface construct; none panics.                                         *)
C7_NeverPanics ==
    last.op \in {"elaborate_decl", "elaborate_expr"} => last.res \in {"Ok", "Err"}

(* C8: a successful elaborate_decl of a top-level Value declaration        *)
(* appends exactly one entry to decls, and decls never shrinks.            *)
C8_ValueAppendsDecl ==
    [][/\ Len(ctx'.decls) >= Len(ctx.decls)
       /\ (/\ last'.op = "elaborate_decl"
           /\ last'.arg.d = "Value"
           /\ last'.res = "Ok"
           /\ calls = <<>>
           => Len(ctx'.decls) = Len(ctx.decls) + 1)
      ]_vars

(* Syntactic values: lambdas, constants, identifiers, records of values,   *)
(* constructors applied to values.                                         *)
RECURSIVE is_syntactic_value(_, _)
is_syntactic_value(c, e) ==
    CASE e.e \in {"Fn", "Const", "Var"} -> TRUE
      [] e.e = "Record" -> \A i \in 1..Len(e.rows) : is_syntactic_value(c, e.rows[i].data)
      [] e.e = "App" ->
           /\ e.e1.e = "Var"
           /\ is_some(lookup_value(c, e.e1.sym))
           /\ lookup_value(c, e.e1.sym).v[2].st \in {"Con", "Exn"}
           /\ is_syntactic_value(c, e.e2)
      [] OTHER -> FALSE

(* the (scheme, status) a successful  val sym = e  has just stored *)
StoredByValueDecl == lookup_value(ctx, last.arg.pat.sym).v

BoundByValueDecl ==
    /\ last.op = "elaborate_decl"
    /\ last.arg.d = "Value"
    /\ last.arg.pat.p = "Var"
    /\ last.res = "Ok"
    /\ is_some(lookup_value(ctx, last.arg.pat.sym))
    /\ StoredByValueDecl[2].st = "Var"

C10_SeqUnifiesAllButLast ==
    last.op = "elaborate_expr" /\ last.arg.e = "Seq" /\ last.res = "Ok" =>
        LET es == last.ret.kind.exprs
        IN  /\ \A i \in 1..(Len(es) - 1) : resolve(ctx.cells, es[i].ty) = Type_unit
            /\ last.ret.ty = es[Len(es)].ty

(* the condition, then the two branches elaborate, the condition's type    *)
(* unifies with bool and the branch types with each other                  *)
IfWellTyped(c, e) ==
    Try(elaborate_expr(c, e.e1), LAMBDA cond :
    Try(elaborate_expr(cond.ctx, e.e2), LAMBDA a :
    Try(elaborate_expr(a.ctx, e.e3), LAMBDA b :
    Try(unify(b.ctx, cond.val.ty, Type_bool), LAMBDA u :
        unify(u.ctx, a.val.ty, b.val.ty))))).res = "Ok"

ConPat(con) == Pat_new([pk |-> "App", con |-> con, arg |-> None], Type_bool)

(* C11: elaborate_expr of If(c, a, b) with c : bool and a, b of unifiable   *)
(* types returns Ok with a Case on c of exactly two rules, true => a and    *)
(* false => b in that order, typed with the unified type of the branches.   *)
C11_IfDesugarsToCase ==
    [][last'.op = "elaborate_expr" /\ last'.arg.e = "If" /\ IfWellTyped(ctx, last'.arg) =>
          /\ last'.res = "Ok"
          /\ last'.ret.kind.ek = "Case"
          /\ Len(last'.ret.kind.rules) = 2
          /\ last'.ret.kind.rules[1].pat = ConPat(C_TRUE)
          /\ last'.ret.kind.rules[2].pat = ConPat(C_FALSE)
          /\ resolve(ctx'.cells, last'.ret.ty) =
                resolve(ctx'.cells, last'.ret.kind.rules[1].expr.ty)
      ]_vars

(* the Case that  a andalso b  (first)  and  a orelse b  (second) stand for *)
CaseOfAndalso(a, b) ==
    Expr_new([ek |-> "Case", scrut |-> a,
              rules |-> <<Rule(ConPat(C_TRUE), b),
                          Rule(ConPat(C_FALSE),
                               Expr_new([ek |-> "Con", con |-> C_FALSE, tys |-> <<>>], Type_bool))>>],
             Type_bool)

CaseOfOrelse(a, b) ==
    Expr_new([ek |-> "Case", scrut |-> a,
              rules |-> <<Rule(ConPat(C_TRUE),
                               Expr_new([ek |-> "Con", con |-> C_TRUE, tys |-> <<>>], Type_bool)),
                          Rule(ConPat(C_FALSE), b)>>],
             Type_bool)

IsBool(cells, ty) == resolve(cells, ty) = Type_bool
NotBool(cells, ty) == resolve(cells, ty).k # "Var" /\ ~IsBool(cells, ty)

(* C12: when both operands of Andalso(a, b) / Orelse(a, b) elaborate, the   *)
(* call fails exactly if an operand has a non-bool type; when it succeeds   *)
(* both operand types are bool and the result is                            *)
(* Case(a, [true => b, false => Con false]), respectively                   *)
(* Case(a, [true => Con true, false => b]), of type bool.                   *)
C12_AndalsoOrelseDesugar ==
    [][last'.op = "elaborate_expr" /\ last'.arg.e \in {"Andalso", "Orelse"} =>
          LET a == elaborate_expr(ctx, last'.arg.e1)
              b == elaborate_expr(a.ctx, last'.arg.e2)
          IN  a.res = "Ok" /\ b.res = "Ok" =>
                /\ (NotBool(b.ctx.cells, a.val.ty) \/ NotBool(b.ctx.cells, b.val.ty)
                      => last'.res = "Err")
                /\ (last'.res = "Ok" =>
                      /\ IsBool(ctx'.cells, a.val.ty)
                      /\ IsBool(ctx'.cells, b.val.ty)
                      /\ last'.ret.ty = Type_bool
                      /\ last'.ret = IF last'.arg.e = "Andalso"
                                       THEN CaseOfAndalso(a.val, b.val)
                                       ELSE CaseOfOrelse(a.val, b.val))
                /\ (IsBool(b.ctx.cells, a.val.ty) /\ IsBool(b.ctx.cells, b.val.ty)
                      => last'.res = "Ok")
      ]_vars

(* true andalso false  has elaborated: a Case on true whose second rule is  *)
(* false => false, the constructor put there by the desugaring              *)
C12_Witness ==
    /\ last.op = "elaborate_expr"
    /\ last.arg = EAndalso(EVar(S_TRUE), EVar(S_FALSE))
    /\ last.res = "Ok"
    /\ last.ret.kind.scrut.kind = [ek |-> "Var", sym |-> S_TRUE]
    /\ last.ret.kind.rules[1].expr.kind = [ek |-> "Var", sym |-> S_FALSE]
    /\ last.ret.kind.rules[2].expr.kind = [ek |-> "Con", con |-> C_FALSE, tys |-> <<>>]

(* the elements elaborate in order and their types unify with the first *)
ListWellTyped(c, e) ==
    Try(elab_exprs(c, e.exprs), LAMBDA es :
        unify_list(es.ctx, [i \in 1..Len(es.val) |-> es.val[i].ty])).res = "Ok"

(* C13: elaborate_expr of List([e1..en]) whose elements elaborate to        *)
(* unifiable types returns Ok with type Con(list, [t]), t the common        *)
(* element type; for n = 0 it returns Ok and t is a fresh type variable.    *)
C13_ListHasListType ==
    [][last'.op = "elaborate_expr" /\ last'.arg.e = "List" /\ ListWellTyped(ctx, last'.arg) =>
          /\ last'.res = "Ok"
          /\ resolve(ctx'.cells, last'.ret.ty).k = "Con"
          /\ resolve(ctx'.cells, last'.ret.ty).tc = T_LIST
          /\ IF last'.arg.exprs = <<>>
                THEN resolve(ctx'.cells, last'.ret.ty).args = <<Var(ctx.tyvar_id)>>
                ELSE resolve(ctx'.cells, last'.ret.ty).args =
                       <<resolve(ctx'.cells, last'.ret.kind.exprs[1].ty)>>
      ]_vars

HasDuplicateLabel(rows) ==
    \E i, j \in 1..Len(rows) : i # j /\ rows[i].label = rows[j].label

(* C14: elaborate_expr of a Record with a repeated label returns Err; of a  *)
(* Record with pairwise distinct labels whose fields elaborate it returns   *)
(* Ok with a Record of the elaborated fields, typed with the record of the  *)
(* fields' types under the same labels.                                     *)
C14_RecordLabels ==
    [][last'.op = "elaborate_expr" /\ last'.arg.e = "Record" /\ last'.res # "Panic" =>
          IF HasDuplicateLabel(last'.arg.rows)
            THEN last'.res = "Err"
            ELSE elab_rows(ctx, last'.arg.rows).res = "Ok" =>
                   /\ last'.res = "Ok"
                   /\ last'.ret.kind.ek = "Record"
                   /\ last'.ret.ty.k = "Record"
                   /\ Len(last'.ret.ty.rows) = Len(last'.arg.rows)
                   /\ \A i \in 1..Len(last'.arg.rows) :
                         /\ last'.ret.ty.rows[i].label = last'.arg.rows[i].label
                         /\ last'.ret.ty.rows[i].data = last'.ret.kind.rows[i].data.ty
      ]_vars

(* C15: elab_decl_fixity(fixity, p, sym) returns Ok for every precedence    *)
(* byte p and files, under sym in the current frame's infix map,            *)
(* Infix(p, p + 1) for infix, Infix(p + 1, p) for infixr and Nonfix for     *)
(* nonfix, p + 1 being the arithmetic sum, at p = 255 too.                  *)
C15_FixityBindingPowers ==
    [][last'.op = "elab_decl_fixity" =>
          LET fixity == last'.arg[1]
              p == last'.arg[2]
              sym == last'.arg[3]
          IN  /\ last'.res = "Ok"
              /\ sym \in DOMAIN Frame(ctx', ctx'.current).infix
              /\ Frame(ctx', ctx'.current).infix[sym] =
                    CASE fixity = "Infix" -> Fixity_Infix(p, p + 1)
                      [] fixity = "Infixr" -> Fixity_Infix(p + 1, p)
                      [] fixity = "Nonfix" -> Fixity_Nonfix
      ]_vars

(* the constructor labels of a Datatype declaration, in order *)
RECURSIVE ConLabels(_)
ConLabels(dbs) ==
    IF dbs = <<>> THEN <<>>
    ELSE [i \in 1..Len(Head(dbs).constructors) |-> Head(dbs).constructors[i].label]
           \o ConLabels(Tail(dbs))

IsConstructor(c, sym) ==
    is_some(lookup_value(c, sym)) /\ lookup_value(c, sym).v[2].st \in {"Con", "Exn"}

(* a label occurs twice in the declaration, or resolves to a constructor *)
DuplicateConstructor(c, dbs) ==
    \/ \E i, j \in 1..Len(ConLabels(dbs)) : i # j /\ ConLabels(dbs)[i] = ConLabels(dbs)[j]
    \/ \E i \in 1..Len(ConLabels(dbs)) : IsConstructor(c, ConLabels(dbs)[i])

(* C16: a Datatype declaration with a duplicate constructor (a label used   *)
(* twice, or one that resolves to a data or exception constructor) is       *)
(* rejected, and the duplicate-constructor error is returned for such       *)
(* declarations only: labels that are unbound or bound as ordinary          *)
(* variables do not bring it about.                                         *)
C16_DuplicateConstructor ==
    [][last'.op = "elaborate_decl" /\ last'.arg.d = "Datatype" /\ last'.res # "Panic" =>
          /\ (DuplicateConstructor(ctx, last'.arg.dbs) => last'.res = "Err")
          /\ (/\ last'.res = "Err"
              /\ last'.ret.msg = "rebinding of data constructor is disallowed"
              => DuplicateConstructor(ctx, last'.arg.dbs))
      ]_vars

(* C17: no two of the Gensym symbols handed out in a compilation, by       *)
(* Context::fresh_var, ExprArena::allocate_id or ExprArena::fresh_var, are *)
(* the same.                                                               *)
C17_GensymsUnique ==
    \A i, j \in 1..Len(gensyms) : i # j => gensyms[i] # gensyms[j]

(* the type-variable ids quantified by the schemes Context::new installs *)
PreludeTyvarIds ==
    UNION {{Context_new.values[k][1].ids[i] : i \in 1..Len(Context_new.values[k][1].ids)} :
             k \in {n \in 1..Len(Context_new.values) : Context_new.values[n][1].s = "Poly"}}

(* C18: tyvar_id never decreases, and every fresh_tyvar call returns the   *)
(* value of the counter, which it then increments: an id that no TypeVar   *)
(* made so far has, the prelude's (id 0, quantified in the scheme of nil)  *)
(* included.                                                               *)
C18_FreshTyvarUnique ==
    [][/\ ctx'.tyvar_id >= ctx.tyvar_id
       /\ (last'.op = "fresh_tyvar" =>
              /\ last'.ret = ctx.tyvar_id
              /\ ctx'.tyvar_id = ctx.tyvar_id + 1
              /\ last'.ret \notin PreludeTyvarIds
              /\ last'.ret \notin DOMAIN ctx.cells
              /\ last'.ret \in DOMAIN ctx'.cells)
       /\ \A id \in DOMAIN ctx'.cells : id < ctx'.tyvar_id
      ]_vars

(* a fresh_tyvar call made after a declaration that took type variables of *)
(* its own: it returned an id beyond theirs and beyond the prelude's       *)
C18_Witness ==
    /\ last.op = "fresh_tyvar"
    /\ last.ret > 1
    /\ PreludeTyvarIds = {0}
    /\ \E k \in 1..Len(ctx.types) :
          /\ ctx.types[k].ts = "Scheme"
          /\ ctx.types[k].scheme.s = "Poly"
          /\ \A i \in 1..Len(ctx.types[k].scheme.ids) :
                ctx.types[k].scheme.ids[i] \in 1..(last.ret - 1)

(* a later rule's body is a variable that only the pattern of an earlier   *)
(* rule binds: nothing in scope at the match, nor its own pattern, does    *)
UsesEarlierRuleVar(c, rules) ==
    \E i, j \in 1..Len(rules) :
        /\ i < j
        /\ rules[i].pat.p = "Var"
        /\ rules[j].pat # rules[i].pat
        /\ rules[j].expr = EVar(rules[i].pat.sym)
        /\ lookup_value(c, rules[i].pat.sym) = None

(* C19: a match (fn, case, handle) in which a later rule refers to a       *)
(* variable bound only by an earlier rule's pattern is rejected, that      *)
(* variable being unbound there; and after any match every lookup_value    *)
(* from the enclosing scope gives what it gave before.                     *)
C19_RuleScopes ==
    [][/\ last'.op = "elaborate_expr"
       /\ last'.arg.e \in {"Fn", "Case", "Handle"}
       /\ last'.res # "Panic"
       => /\ (UsesEarlierRuleVar(ctx, last'.arg.rules) => last'.res = "Err")
          /\ \A sym \in AllSyms : lookup_value(ctx', sym) = lookup_value(ctx, sym)
      ]_vars

(* frame 0 has no parent, every other frame has one of smaller index, and  *)
(* current indexes a frame                                                 *)
FramesWellFormed(c) ==
    /\ Len(c.namespaces) >= 1
    /\ Frame(c, 0).parent = None
    /\ \A i \in 1..(Len(c.namespaces) - 1) :
          is_some(Frame(c, i).parent) /\ Frame(c, i).parent.v \in 0..(i - 1)
    /\ c.current \in 0..(Len(c.namespaces) - 1)

(* C20: no step shortens the namespace vector or changes the parent of a   *)
(* frame; before and after every step frame 0 is the only frame without a  *)
(* parent, every other frame's parent has a smaller index, and current     *)
(* indexes a frame; so a lookup walk from current visits each frame at     *)
(* most once and ends at frame 0 within namespaces.len() steps.            *)
C20_FramesWellFounded ==
    [][/\ Len(ctx'.namespaces) >= Len(ctx.namespaces)
       /\ \A i \in 0..(Len(ctx.namespaces) - 1) : Frame(ctx', i).parent = Frame(ctx, i).parent
       /\ FramesWellFormed(ctx)
       /\ FramesWellFormed(ctx')
       /\ Len(Chain(ctx', ctx'.current)) <= Len(ctx'.namespaces)
       /\ Top(Chain(ctx', ctx'.current)) = 0
       /\ \A k \in 1..(Len(Chain(ctx', ctx'.current)) - 1) :
             Chain(ctx', ctx'.current)[k] > Chain(ctx', ctx'.current)[k + 1]
      ]_vars

(* two scopes were opened one inside the other and the inner one has       *)
(* returned: three frames, current back at frame 1, frame 2 still in the   *)
(* vector with parent 1                                                    *)
C20_Witness ==
    /\ last.op = "with_scope"
    /\ Len(ctx.namespaces) = 3
    /\ ctx.current = 1
    /\ Frame(ctx, 2).parent = Some(1)
    /\ Frame(ctx, 1).parent = Some(0)
    /\ Chain(ctx, ctx.current) = <<1, 0>>

(* what lookup_type and lookup_value return from the current scope of c,   *)
(* for every symbol                                                        *)
Resolution(c) ==
    [sym \in AllSyms |-> <<lookup_type(c, sym), lookup_value(c, sym)>>]

(* C21: a Datatype declaration that fails leaves no trace: after           *)
(* elaborate_decl has returned the error, lookup_type and lookup_value     *)
(* from the current scope return, for every symbol, what they returned     *)
(* before the declaration.                                                 *)
C21_FailedDatatypeLeavesNoTrace ==
    [][last'.op = "elaborate_decl" /\ last'.arg.d = "Datatype" /\ last'.res = "Err" =>
          Resolution(ctx') = Resolution(ctx)
      ]_vars

====
